---- MODULE Spec2Model ----
(***************************************************************************)
(* The seed worker (tools/seed_worker/worker.py) and the API start-up      *)
(* gate (app/main.py) of fastapi-monitoring-and-observability.             *)
(*                                                                         *)
(* Time is counted in whole ticks (one tick = one second).  The remote     *)
(* resource, the random source and the faults of the runtime are the       *)
(* environment: every action draws them from small sets.  Python's None    *)
(* is the integer NoneVal, float("inf") is the integer Inf.  Durations of  *)
(* the configuration are non-negative, except CYCLE_S, which the code      *)
(* tests for <= 0, so time.sleep does not raise.  The variables `last`,     *)
(* `visited` and `ideal` are history: they record what the step just taken *)
(* did, which states the worker has been in and how many iterations an     *)
(* undisturbed run has made; the program does not read them.               *)
(***************************************************************************)
EXTENDS Integers, Sequences, FiniteSets, TLC

(* ------------------------------ bounds --------------------------------- *)
\* the clock saturates here (no deadline of the model lies beyond it)
MaxTime == 3
\* created_ids holds at most this many identifiers
MaxTracked == 2
\* the remote hands out the identifiers 0..MaxId
MaxId == 2
\* the history's counts (faults in a row, iterations of an undisturbed run)
\* saturate here
MaxCount == 3
\* the longest bounded run, in ticks
MaxCycle == 2
\* the longest readiness timeout, in ticks
MaxWait == 2

(* ------------------------- values and helpers -------------------------- *)
NoneVal == -1
Inf == -2

BackoffFloor == 1
BackoffCap == 30

Min(a, b) == IF a < b THEN a ELSE b

Range(s) == {s[i] : i \in 1..Len(s)}

\* time.time() after d more ticks
Advance(t, d) == Min(t + d, MaxTime)

\* `time.time() < end`, end possibly float("inf")
TimeBefore(t, e) == IF e = Inf THEN TRUE ELSE t < e

\* Python truth value of an `int | None`
Truthy(v) == v # NoneVal /\ v # 0

\* list.remove(x) under contextlib.suppress(ValueError): drops the first
\* occurrence of x, leaves the list alone when x is not in it
ListRemove(s, x) ==
    IF x \notin Range(s) THEN s
    ELSE LET i == CHOOSE j \in 1..Len(s) :
                     s[j] = x /\ \A h \in 1..(j - 1) : s[h] # x
         IN  SubSeq(s, 1, i - 1) \o SubSeq(s, i + 1, Len(s))

(* --------------------------- the remote -------------------------------- *)
Ids == 0..MaxId

\* the elements a JSON array answered by GET <base> can hold: a record with
\* the integer id n is n; the others are
NullIdRec == NoneVal   \* a record whose "id" is null or missing
EmptyRec == -3         \* a falsy element: {} or null
StrIdRec == -4         \* a record whose "id" is not an integer
NotARec == -5          \* a truthy element that is not an object

\* what one HTTP request can come to: a transport fault (httpx raises) or a
\* response with a status code and a body
Resp(kind, code, body, id, items) ==
    [kind |-> kind, code |-> code, body |-> body, id |-> id, items |-> items]

TransportFaults ==
    {Resp("timeout", 0, "none", NoneVal, <<>>),
     Resp("refused", 0, "none", NoneVal, <<>>)}

ErrorStatuses == {404, 500}

ErrorResponses ==
    TransportFaults
    \cup {Resp("status", c, "none", NoneVal, <<>>) : c \in ErrorStatuses}

\* POST <base>: 200/201 with an object (with or without "id") or with a body
\* that is not JSON; any other status
CreateResponses ==
    ErrorResponses
    \cup {Resp("status", 204, "none", NoneVal, <<>>)}
    \cup {Resp("status", c, "object", i, <<>>) :
              c \in {200, 201}, i \in Ids \cup {NoneVal}}
    \cup {Resp("status", 201, "invalid", NoneVal, <<>>)}

\* GET <base> as the Running loop sees it
ListResponses ==
    ErrorResponses
    \cup {Resp("status", 200, "array", NoneVal, l) : l \in {<<>>, <<1>>}}
    \cup {Resp("status", 200, "invalid", NoneVal, <<>>)}

\* GET/PUT/DELETE <base>/{id}
ItemResponses ==
    ErrorResponses
    \cup {Resp("status", c, "object", NoneVal, <<>>) : c \in {200, 204}}

\* GET <base>/{id}, whose body get_item decodes: also a 200 that is not JSON
GetResponses ==
    ItemResponses \cup {Resp("status", 200, "invalid", NoneVal, <<>>)}

\* the remote failed: timeout, connection refused, 4xx or 5xx
IsRemoteFailure(r) == r.kind # "status" \/ r.code \in ErrorStatuses

\* the answer each request takes as success: the status its caller tests
\* for, with the body it goes on to read
Succeeds(call, r) ==
    CASE call = "none" -> TRUE
      [] call = "health" -> r.kind = "status" /\ r.code = 200
      [] call = "create" ->
           /\ r.kind = "status" /\ r.code \in {200, 201}
           /\ r.body = "object" /\ r.id # NoneVal
      [] call \in {"list", "list_filtered"} ->
           r.kind = "status" /\ r.code = 200 /\ r.body = "array"
      [] call = "get" ->
           r.kind = "status" /\ r.code = 200 /\ r.body = "object"
      [] call = "update" -> r.kind = "status" /\ r.code = 200
      [] call = "delete" -> r.kind = "status" /\ r.code \in {200, 204}

(* --------------------------- ActionClient ------------------------------ *)
\* the result of one call: the value it returns, or `raised` when an
\* exception leaves it
Returned(v) == [raised |-> FALSE, ret |-> v]
Raised == [raised |-> TRUE, ret |-> NoneVal]

\* the JSON value get_items returns
Json(shape, items) == [shape |-> shape, items |-> items]
EmptyList == Json("array", <<>>)

create_item_uncaught(payload_fault, r) ==
    IF payload_fault \/ r.kind # "status" THEN Raised
    ELSE IF r.code \in {200, 201} /\ r.body = "object" THEN Returned(r.id)
    ELSE Returned(NoneVal)

\* payload_fault: building the payload (line 60, outside the try) raises
create_item(payload_fault, r) ==
    IF payload_fault THEN Raised
    ELSE IF r.kind # "status" THEN Returned(NoneVal)
    ELSE IF r.code \in {200, 201}
         THEN IF r.body = "object" THEN Returned(r.id)
              ELSE Returned(NoneVal)      \* r.json() or data.get raises
    ELSE Returned(NoneVal)

get_items(r) ==
    IF r.kind # "status" THEN Returned(EmptyList)
    ELSE IF r.code = 200
         THEN IF r.body \in {"array", "object"}
              THEN Returned(Json(r.body, r.items))
              ELSE Returned(EmptyList)    \* r.json() raises
    ELSE Returned(EmptyList)

\* the record is modelled by the identifier asked for
get_item(item_id, r) ==
    IF r.kind # "status" THEN Returned(NoneVal)
    ELSE IF r.code = 200
         THEN IF r.body = "object" THEN Returned(item_id)
              ELSE Returned(NoneVal)      \* r.json() raises
    ELSE Returned(NoneVal)

(* ------------------------------ logging -------------------------------- *)
\* the levels of the logging module and the one basicConfig sets (line 38)
LevelNo(level) ==
    CASE level = "debug" -> 10
      [] level = "info" -> 20
      [] level = "warning" -> 30
      [] level = "error" -> 40

ConfiguredLevel == "info"

\* a record reaches the log when its level is not below the configured one
Emitted(level) == LevelNo(level) >= LevelNo(ConfiguredLevel)

\* the logger calls one ActionClient operation makes, in order, as their
\* levels; get_item logs "got item" before it decodes the body
LogCalls(call, payload_fault, r) ==
    IF call = "none" \/ payload_fault THEN <<>>
    ELSE IF r.kind # "status" THEN <<"error">>
    ELSE CASE call = "create" ->
                IF r.code \in {200, 201}
                THEN IF r.body = "object" THEN <<"info">> ELSE <<"error">>
                ELSE <<"warning">>
           [] call \in {"list", "list_filtered"} ->
                IF r.code = 200
                THEN IF r.body \in {"array", "object"} THEN <<"info">>
                     ELSE <<"error">>
                ELSE <<"warning">>
           [] call = "get" ->
                IF r.code = 200
                THEN IF r.body = "object" THEN <<"info">>
                     ELSE <<"info", "error">>
                ELSE <<"debug">>
           [] call = "update" ->
                IF r.code = 200 THEN <<"info">> ELSE <<"warning">>
           [] call = "delete" ->
                IF r.code \in {200, 204} THEN <<"info">> ELSE <<"warning">>

\* the lines the call writes to the log
LogLines(call, payload_fault, r) ==
    Len(SelectSeq(LogCalls(call, payload_fault, r), Emitted))

\* payload_fault: building the payload (lines 105-109) raises
update_item(payload_fault, r) ==
    IF payload_fault THEN Raised
    ELSE IF r.kind # "status" THEN Returned(FALSE)
    ELSE IF r.code = 200 THEN Returned(TRUE)
    ELSE Returned(FALSE)

delete_item_404_is_gone(r) ==
    IF r.kind # "status" THEN Returned(FALSE)
    ELSE IF r.code \in {200, 204, 404} THEN Returned(TRUE)
    ELSE Returned(FALSE)

delete_item_ignores_status(r) ==
    IF r.kind # "status" THEN Returned(FALSE) ELSE Returned(TRUE)

delete_item(r) ==
    IF r.kind # "status" THEN Returned(FALSE)
    ELSE IF r.code \in {200, 204} THEN Returned(TRUE)
    ELSE Returned(FALSE)

(* ------------------------------ state ---------------------------------- *)
VARIABLES
    CYCLE_S, INTERVAL_S, API_WAIT_TIMEOUT, API_WAIT_INTERVAL,  \* the config
    state,        \* "Init", "AwaitingReadiness", "Running", "Draining", "Finished"
    now,          \* time.time()
    end,          \* the run deadline of main
    gate_end,     \* the deadline of wait_for_api
    gate,         \* what wait_for_api returned: "pending", "true", "false"
    created_ids,  \* the TrackedIdentifierSet
    backoff,      \* the BackoffState
    pc,           \* in Running: "head" before the loop condition is
                  \*   evaluated, "body" once it has held
    drain,        \* diagnostics: [pc, valid_ids, pending, lists, gets]
    exit_code,    \* the exit status of the process, NoneVal while it runs
    last,         \* history: the step taken last
    visited,      \* history: the states of the worker passed through
    ideal,        \* history: the Running iterations done, while every request
                  \*   so far was answered with success at once and nothing
                  \*   was raised; NoneVal from then on
    api           \* the start-up of the API: [state, now, end, timeout,
                  \*   interval, tables, result, probe_ok, started,
                  \*   attempt, sleeps]

config == <<CYCLE_S, INTERVAL_S, API_WAIT_TIMEOUT, API_WAIT_INTERVAL>>

worker_vars ==
    <<state, now, end, gate_end, gate, created_ids, backoff, pc, drain,
      exit_code, last, visited, ideal>>

vars == <<config, worker_vars, api>>

Config(cycle, interval, wait_timeout, wait_interval) ==
    <<cycle, interval, wait_timeout, wait_interval>>

\* the configurations a run is started with: endless runs (CYCLE_S <= 0),
\* bounded runs with a short and a long pacing interval, a readiness timeout
\* of zero, and a readiness timeout that outlasts the run
Configs ==
    {Config(0 - 1, 1, 1, 1),
     Config(0, 1, 1, 1),
     Config(MaxCycle, 1, MaxWait, 1),
     Config(MaxCycle, 2, 1, 2),
     Config(1, 1, 0, 1),
     Config(1, 1, MaxWait, 2)}

\* ticks one HTTP request can take
CallDurations == {0, 1}

NoDrain ==
    [pc |-> "idle", valid_ids |-> <<>>, pending |-> {}, lists |-> 0,
     gets |-> 0]

\* the API before its lifespan starts; wait_for_db_sync is called with
\* the timeout and the interval given
ApiCreated(timeout, interval) ==
    [state |-> "Created", now |-> 0, end |-> 0, timeout |-> timeout,
     interval |-> interval, tables |-> FALSE, result |-> "none",
     probe_ok |-> FALSE, started |-> 0, attempt |-> 0, sleeps |-> 0]

WorkerInit ==
    /\ \E c \in Configs :
         /\ CYCLE_S = c[1]
         /\ INTERVAL_S = c[2]
         /\ API_WAIT_TIMEOUT = c[3]
         /\ API_WAIT_INTERVAL = c[4]
    /\ state = "Init"
    /\ now = 0
    /\ end = Inf
    /\ gate_end = 0
    /\ gate = "pending"
    /\ created_ids = <<>>
    /\ backoff = BackoffFloor
    /\ pc = "head"
    /\ drain = NoDrain
    /\ exit_code = NoneVal
    /\ last = [step |-> "none"]
    /\ visited = {"Init"}
    /\ ideal = 0

Init == WorkerInit /\ api = ApiCreated(MaxWait, 1)

(* ------------------------------ main ----------------------------------- *)
\* `if __name__ == "__main__": main()`: the interpreter exits with status 0
\* when main returns, whichever return it was, and with 1 when an exception
\* leaves it
ExitStatus(how) == IF how = "exception" THEN 1 ELSE 0

RunEnd_after_wait(start, cycle) ==
    IF cycle > 0 THEN start + API_WAIT_TIMEOUT + cycle ELSE Inf

RunEnd_never(start, cycle) == Inf

RunEnd_no_duration(start, cycle) == IF cycle > 0 THEN start ELSE Inf

RunEnd_always_finite(start, cycle) == start + cycle

\* end = start + CYCLE_S if CYCLE_S > 0 else float("inf")
RunEnd(start, cycle) == IF cycle > 0 THEN start + cycle ELSE Inf

\* main up to the call of wait_for_api, and the first line of wait_for_api
MainStart ==
    /\ state = "Init"
    /\ state' = "AwaitingReadiness"
    /\ end' = RunEnd(now, CYCLE_S)
    /\ gate_end' = now + API_WAIT_TIMEOUT
    /\ visited' = visited \cup {"AwaitingReadiness"}
    /\ last' = [step |-> "start"]
    /\ UNCHANGED <<api, config, pc, now, gate, created_ids, backoff, drain,
                   exit_code, ideal>>

(* -------------------------- wait_for_api ------------------------------- *)
\* GET <health-url>
HealthResponses ==
    ErrorResponses \cup {Resp("status", 200, "object", NoneVal, <<>>)}

ProbeApi_any_status(r) ==
    IF r.kind # "status" THEN "retry" ELSE "ready"

ProbeApi_uncaught(r) ==
    IF r.kind # "status" THEN "raise"
    ELSE IF r.code = 200 THEN "ready" ELSE "retry"

\* one probe of wait_for_api: "ready", "retry", or "raise" when the
\* exception leaves wait_for_api
ProbeApi(r) ==
    IF r.kind # "status" THEN "retry"
    ELSE IF r.code = 200 THEN "ready" ELSE "retry"

AfterGate_no_abort(ok) == "Running"

\* `if not wait_for_api(...): return`, else on to the loop
AfterGate(ok) == IF ok THEN "Running" ELSE "Finished"

\* history: the number of this turn of the polling loop, and how often the
\* loop has slept once the turn is over
GateAttempt(prev) == IF prev.step = "probe" THEN prev.attempt + 1 ELSE 1
GateSleeps(prev, p) ==
    (IF prev.step = "probe" THEN prev.sleeps ELSE 0)
    + (IF p = "retry" THEN 1 ELSE 0)

\* one turn of the polling loop
Probe ==
    /\ state = "AwaitingReadiness"
    /\ now < gate_end
    /\ \E r \in HealthResponses, dur \in CallDurations :
         LET p == ProbeApi(r) IN
         /\ last' = [step |-> "probe", resp |-> r, result |-> p,
                     slept |-> IF p = "retry" THEN API_WAIT_INTERVAL ELSE 0,
                     at |-> now, attempt |-> GateAttempt(last),
                     sleeps |-> GateSleeps(last, p)]
         /\ CASE p = "ready" ->
                   /\ now' = Advance(now, dur)
                   /\ gate' = "true"
                   /\ state' = AfterGate(TRUE)
                   /\ exit_code' = exit_code
              [] p = "retry" ->
                   /\ now' = Advance(now, dur + API_WAIT_INTERVAL)
                   /\ UNCHANGED <<gate, state, exit_code>>
              [] p = "raise" ->
                   /\ now' = Advance(now, dur)
                   /\ gate' = "raised"
                   /\ state' = "Finished"
                   /\ exit_code' = ExitStatus("exception")
         /\ visited' = visited \cup {state'}
         /\ ideal' = IF ideal # NoneVal /\ Succeeds("health", r) /\ dur = 0
                     THEN ideal ELSE NoneVal
    /\ UNCHANGED <<api, config, pc, end, gate_end, created_ids, backoff, drain>>

\* the deadline has passed: wait_for_api returns False and main returns
GateTimeout ==
    /\ state = "AwaitingReadiness"
    /\ ~(now < gate_end)
    /\ gate' = "false"
    /\ state' = AfterGate(FALSE)
    /\ exit_code' = IF AfterGate(FALSE) = "Finished"
                    THEN ExitStatus("abort") ELSE exit_code
    /\ visited' = visited \cup {AfterGate(FALSE)}
    /\ last' = [step |-> "gate_timeout"]
    /\ UNCHANGED <<api, config, pc, now, end, gate_end, created_ids, backoff, drain,
                   ideal>>

(* --------------------------- the Running loop -------------------------- *)
\* choose_op: every operation has a positive weight
Ops == {"create", "list", "get", "update", "delete"}

\* the remote call an operation comes to, given the tracked identifiers
CallOf(op, ids) ==
    CASE op = "create" -> "create"
      [] op = "list" -> "list"
      [] op = "get" -> IF ids # <<>> THEN "get" ELSE "list_filtered"
      [] op \in {"update", "delete"} -> IF ids # <<>> THEN op ELSE "none"

\* an exception can leave the try body without passing through an
\* ActionClient handler where create_item and update_item build their
\* payload, before their own try
CanFault(call) == call \in {"create", "update"}

NoResponse == Resp("none", 0, "none", NoneVal, <<>>)

ResponsesOf(call) ==
    CASE call = "create" -> CreateResponses
      [] call \in {"list", "list_filtered"} -> ListResponses
      [] call = "get" -> GetResponses
      [] call \in {"update", "delete"} -> ItemResponses
      [] call = "none" -> {NoResponse}

\* what the environment hands one iteration: the payload fault, or the
\* answer of the remote and the ticks it took
Inputs(call) ==
    {[payload_fault |-> FALSE, resp |-> r, dur |-> d] :
         r \in ResponsesOf(call),
         d \in IF call = "none" THEN {0} ELSE CallDurations}
    \cup (IF CanFault(call)
          THEN {[payload_fault |-> TRUE, resp |-> NoResponse, dur |-> 0]}
          ELSE {})

\* the indices random.choice can draw
Choices(call, ids) ==
    IF call \in {"get", "update", "delete"} THEN 1..Len(ids) ELSE {1}

Outcome(call, target, res, ids, bk) ==
    [call |-> call, target |-> target, res |-> res, ids |-> ids,
     backoff |-> bk]

Dispatch_get_prunes(op, payload_fault, r, k, ids, bk) ==
    LET target == IF ids # <<>> THEN ids[k] ELSE NoneVal IN
    CASE op = "create" ->
           LET res == create_item(payload_fault, r) IN
           IF ~res.raised /\ Truthy(res.ret)
           THEN Outcome("create", NoneVal, res, Append(ids, res.ret),
                        BackoffFloor)
           ELSE Outcome("create", NoneVal, res, ids, bk)
      [] op = "list" ->
           Outcome("list", NoneVal, get_items(r), ids, bk)
      [] op = "get" ->
           IF ids # <<>>
           THEN LET res == get_item(target, r) IN
                Outcome("get", target, res,
                        IF ~res.raised /\ res.ret = NoneVal
                        THEN ListRemove(ids, target) ELSE ids, bk)
           ELSE Outcome("list_filtered", NoneVal, get_items(r), ids, bk)
      [] op = "update" ->
           IF ids # <<>>
           THEN Outcome("update", target, update_item(payload_fault, r),
                        ids, bk)
           ELSE Outcome("none", NoneVal, Returned(NoneVal), ids, bk)
      [] op = "delete" ->
           IF ids # <<>>
           THEN LET res == delete_item(r) IN
                Outcome("delete", target, res,
                        IF res.ret THEN ListRemove(ids, target) ELSE ids, bk)
           ELSE Outcome("none", NoneVal, Returned(NoneVal), ids, bk)

Dispatch_index_as_id(op, payload_fault, r, k, ids, bk) ==
    LET target == IF ids # <<>> THEN k ELSE NoneVal IN
    CASE op = "create" ->
           LET res == create_item(payload_fault, r) IN
           IF ~res.raised /\ Truthy(res.ret)
           THEN Outcome("create", NoneVal, res, Append(ids, res.ret),
                        BackoffFloor)
           ELSE Outcome("create", NoneVal, res, ids, bk)
      [] op = "list" ->
           Outcome("list", NoneVal, get_items(r), ids, bk)
      [] op = "get" ->
           IF ids # <<>>
           THEN Outcome("get", target, get_item(target, r), ids, bk)
           ELSE Outcome("list_filtered", NoneVal, get_items(r), ids, bk)
      [] op = "update" ->
           IF ids # <<>>
           THEN Outcome("update", target, update_item(payload_fault, r),
                        ids, bk)
           ELSE Outcome("none", NoneVal, Returned(NoneVal), ids, bk)
      [] op = "delete" ->
           IF ids # <<>>
           THEN LET res == delete_item(r) IN
                Outcome("delete", target, res,
                        IF res.ret THEN ListRemove(ids, target) ELSE ids, bk)
           ELSE Outcome("none", NoneVal, Returned(NoneVal), ids, bk)

Dispatch_unguarded(op, payload_fault, r, k, ids, bk) ==
    LET target == IF ids # <<>> THEN ids[k] ELSE NoneVal IN
    CASE op = "create" ->
           LET res == create_item(payload_fault, r) IN
           IF ~res.raised /\ Truthy(res.ret)
           THEN Outcome("create", NoneVal, res, Append(ids, res.ret),
                        BackoffFloor)
           ELSE Outcome("create", NoneVal, res, ids, bk)
      [] op = "list" ->
           Outcome("list", NoneVal, get_items(r), ids, bk)
      [] op = "get" ->
           Outcome("get", target, get_item(target, r), ids, bk)
      [] op = "update" ->
           Outcome("update", target, update_item(payload_fault, r), ids, bk)
      [] op = "delete" ->
           LET res == delete_item(r) IN
           Outcome("delete", target, res,
                   IF res.ret THEN ListRemove(ids, target) ELSE ids, bk)

\* the branches of the try body, lines 188-208; k is the index
\* random.choice draws
Dispatch(op, payload_fault, r, k, ids, bk) ==
    LET target == IF ids # <<>> THEN ids[k] ELSE NoneVal IN
    CASE op = "create" ->
           LET res == create_item(payload_fault, r) IN
           IF ~res.raised /\ Truthy(res.ret)
           THEN Outcome("create", NoneVal, res, Append(ids, res.ret),
                        BackoffFloor)
           ELSE Outcome("create", NoneVal, res, ids, bk)
      [] op = "list" ->
           Outcome("list", NoneVal, get_items(r), ids, bk)
      [] op = "get" ->
           IF ids # <<>>
           THEN Outcome("get", target, get_item(target, r), ids, bk)
           ELSE Outcome("list_filtered", NoneVal, get_items(r), ids, bk)
      [] op = "update" ->
           IF ids # <<>>
           THEN Outcome("update", target, update_item(payload_fault, r),
                        ids, bk)
           ELSE Outcome("none", NoneVal, Returned(NoneVal), ids, bk)
      [] op = "delete" ->
           IF ids # <<>>
           THEN LET res == delete_item(r) IN
                Outcome("delete", target, res,
                        IF res.ret THEN ListRemove(ids, target) ELSE ids, bk)
           ELSE Outcome("none", NoneVal, Returned(NoneVal), ids, bk)

IsIteration(l) == l.step = "iteration"

NextBackoff_no_cap(bk) == bk * 2

NextBackoff_add(bk) == Min(bk + 1, BackoffCap)

\* backoff = min(backoff * 2, 30)
NextBackoff(bk) == Min(bk * 2, BackoffCap)

\* history: how many unexpected-fault iterations in a row end with this one
Streak(prev, unexpected) ==
    IF ~unexpected THEN 0
    ELSE IF prev.step = "loop_test" /\ prev.unexpected
         THEN Min(prev.streak + 1, MaxCount)
         ELSE 1

\* `while time.time() < end` holds: into the body. The record of the
\* iteration before is dropped but for its run of unexpected faults
LoopEnter ==
    /\ state = "Running"
    /\ pc = "head"
    /\ TimeBefore(now, end)
    /\ pc' = "body"
    /\ last' = [step |-> "loop_test",
                unexpected |-> IsIteration(last) /\ last.unexpected,
                streak |-> IF IsIteration(last) THEN last.streak ELSE 0]
    /\ UNCHANGED <<api, config, state, now, end, gate_end, gate, created_ids,
                   backoff, drain, exit_code, visited, ideal>>

\* the body of one iteration of `while time.time() < end`, lines 186-214
RunIteration ==
    /\ state = "Running"
    /\ pc = "body"
    /\ pc' = "head"
    /\ \E op \in Ops :
         /\ op = "create" => Len(created_ids) < MaxTracked
         /\ \E in \in Inputs(CallOf(op, created_ids)),
               k \in Choices(CallOf(op, created_ids), created_ids) :
              \E d \in {Dispatch(op, in.payload_fault, in.resp, k,
                                 created_ids, backoff)} :
                 LET unexpected == d.res.raised
                     slept == IF unexpected THEN d.backoff ELSE INTERVAL_S
                 IN
                 /\ created_ids' = d.ids
                 /\ backoff' = IF unexpected THEN NextBackoff(d.backoff)
                               ELSE d.backoff
                 /\ now' = Advance(now, in.dur + slept)
                 /\ last' = [step |-> "iteration", op |-> op,
                             call |-> d.call,
                             issued |-> d.call # "none" /\ ~in.payload_fault,
                             target |-> d.target, resp |-> in.resp,
                             res |-> d.res, unexpected |-> unexpected,
                             slept |-> slept,
                             streak |-> Streak(last, unexpected),
                             lines |-> LogLines(d.call, in.payload_fault,
                                                in.resp)]
                 /\ ideal' = IF /\ ideal # NoneVal
                                /\ Succeeds(d.call, in.resp)
                                /\ in.dur = 0
                                /\ ~d.res.raised
                             THEN Min(ideal + 1, MaxCount)
                             ELSE NoneVal
    /\ UNCHANGED <<api, config, state, end, gate_end, gate, drain, exit_code,
                   visited>>

\* the loop condition fails: on to the diagnostics
LoopExit ==
    /\ state = "Running"
    /\ pc = "head"
    /\ ~TimeBefore(now, end)
    /\ state' = "Draining"
    /\ drain' = [drain EXCEPT !.pc = "list"]
    /\ visited' = visited \cup {"Draining"}
    /\ last' = [step |-> "loop_exit", iterated |-> IsIteration(last)]
    /\ UNCHANGED <<api, config, pc, now, end, gate_end, gate, created_ids, backoff,
                   exit_code, ideal>>

(* ----------------------------- diagnostics ----------------------------- *)
SampleMax == 5

\* the bodies GET <base> answers at the end of the run; a JSON object is the
\* sequence of its keys, which is what iterating it yields
DrainListings ==
    {<<>>, <<1>>, <<2, 1, 1>>, <<0, NullIdRec>>,
     <<EmptyRec, StrIdRec, 2>>, <<1, NotARec>>,
     <<0, 1, 2, 0, 1, 2>>}

DrainListResponses ==
    ErrorResponses
    \cup {Resp("status", 200, "array", NoneVal, l) : l \in DrainListings}
    \cup {Resp("status", 200, "object", NoneVal, l) :
              l \in {<<>>, <<NotARec>>}}
    \cup {Resp("status", 200, "invalid", NoneVal, <<>>)}

\* `i and i.get("id") is not None` raises on a truthy element without .get
ListingCrashes(items) == \E i \in 1..Len(items) : items[i] = NotARec

IsKept(e) == e # EmptyRec /\ e # NullIdRec
IsInt(e) == e >= 0

\* ids = [...]; valid_ids = [i for i in ids if isinstance(i, int)]
ValidIds(items) == SelectSeq(SelectSeq(items, IsKept), IsInt)

\* random.sample(valid_ids, min(5, len(valid_ids))), as the positions drawn
Samples(valid_ids) ==
    {ps \in SUBSET (1..Len(valid_ids)) :
         Cardinality(ps) = Min(SampleMax, Len(valid_ids))}

\* all_items = get_items(client) and the choice of the sample; the clock is
\* not read any more once the loop is left
DrainList ==
    /\ state = "Draining"
    /\ drain.pc = "list"
    /\ \E r \in DrainListResponses :
         LET res == get_items(r)
             crash == ListingCrashes(res.ret.items)
         IN
         /\ last' = [step |-> "drain_list", resp |-> r, res |-> res,
                     crashed |-> crash,
                     lines |-> LogLines("list", FALSE, r)]
         /\ IF crash
            THEN /\ state' = "Finished"
                 /\ exit_code' = ExitStatus("exception")
                 /\ drain' = [drain EXCEPT !.pc = "crashed", !.lists = @ + 1]
            ELSE /\ \E ps \in Samples(ValidIds(res.ret.items)) :
                      drain' = [drain EXCEPT
                                  !.pc = "gets",
                                  !.valid_ids = ValidIds(res.ret.items),
                                  !.pending = ps,
                                  !.lists = @ + 1]
                 /\ UNCHANGED <<state, exit_code>>
         /\ visited' = visited \cup {state'}
    /\ UNCHANGED <<api, config, pc, now, end, gate_end, gate, created_ids, backoff,
                   ideal>>

\* one turn of `for sid in sample_ids: get_item(client, sid)`; the gets do
\* not depend on one another, so of the orders random.sample can give the
\* sample in, the one by position stands for all
DrainGet ==
    /\ state = "Draining"
    /\ drain.pc = "gets"
    /\ \E p \in {q \in drain.pending : \A o \in drain.pending : q <= o},
          r \in GetResponses :
         LET sid == drain.valid_ids[p] IN
         /\ drain' = [drain EXCEPT !.pending = @ \ {p}, !.gets = @ + 1]
         /\ last' = [step |-> "drain_get", target |-> sid, resp |-> r,
                     res |-> get_item(sid, r),
                     lines |-> LogLines("get", FALSE, r)]
    /\ UNCHANGED <<api, config, pc, state, now, end, gate_end, gate, created_ids,
                   backoff, exit_code, visited, ideal>>

\* the sample is exhausted: "seed-worker finished", main returns
Finish ==
    /\ state = "Draining"
    /\ drain.pc = "gets"
    /\ drain.pending = {}
    /\ state' = "Finished"
    /\ exit_code' = ExitStatus("done")
    /\ drain' = [drain EXCEPT !.pc = "done"]
    /\ visited' = visited \cup {"Finished"}
    /\ last' = [step |-> "finish"]
    /\ UNCHANGED <<api, config, pc, now, end, gate_end, gate, created_ids, backoff,
                   ideal>>

(* ----------------------- the start-up of the API ----------------------- *)
\* the timeouts and intervals wait_for_db_sync is run with (its one caller
\* passes 60 and 1.0)
DbTimeouts == 0..MaxWait
DbIntervals == {1, 2}

DbProbe_raises_at_deadline(ok, t, e) ==
    IF ok THEN "ready" ELSE IF t >= e THEN "raise" ELSE "retry"

DbProbe_returns_false(ok, t, e) ==
    IF ok THEN "ready" ELSE IF t > e THEN "false" ELSE "retry"

\* one turn of `while True` in wait_for_db_sync, the probe done at time t:
\* return, sleep and go round again, or re-raise the probe's exception
DbProbe(ok, t, e) ==
    IF ok THEN "ready" ELSE IF t > e THEN "raise" ELSE "retry"

\* lifespan up to the first line of wait_for_db_sync
LifespanStart ==
    /\ api.state = "Created"
    /\ api' = [api EXCEPT !.state = "WaitingForDb",
                          !.end = api.now + api.timeout]
    /\ UNCHANGED <<config, worker_vars>>

\* `with engine.connect() ...: SELECT 1` and what follows it
DbPoll ==
    /\ api.state = "WaitingForDb"
    /\ \E ok \in BOOLEAN, dur \in CallDurations :
         LET t == api.now + dur
             p == DbProbe(ok, t, api.end)
         IN
         api' = [api EXCEPT
                   !.probe_ok = ok,
                   !.result = p,
                   !.started = api.now,
                   !.attempt = @ + 1,
                   !.sleeps = IF p = "retry" THEN @ + 1 ELSE @,
                   !.now = IF p = "retry" THEN t + api.interval ELSE t,
                   !.state = CASE p = "ready" -> "DbReady"
                               [] p = "retry" -> "WaitingForDb"
                               [] p = "raise" -> "Failed"
                               [] p = "false" -> "DbReady"]
    /\ UNCHANGED <<config, worker_vars>>

\* SQLModel.metadata.create_all(engine), the start-up log line and `yield`;
\* create_all raises when the database is gone again
CreateTables ==
    /\ api.state = "DbReady"
    /\ \E ok \in BOOLEAN :
         api' = [api EXCEPT !.state = IF ok THEN "Serving" ELSE "Failed",
                            !.tables = ok]
    /\ UNCHANGED <<config, worker_vars>>

(* ------------------------- the specification --------------------------- *)
Next ==
    \/ MainStart
    \/ Probe
    \/ GateTimeout
    \/ LoopEnter
    \/ RunIteration
    \/ LoopExit
    \/ DrainList
    \/ DrainGet
    \/ Finish

Spec == Init /\ [][Next]_vars

\* the worker is one thread that runs on: time advances and every request
\* returns, so a step that can be taken is taken
FairSpec == Spec /\ WF_vars(Next)

\* the two readiness gates side by side: the worker up to the return of
\* wait_for_api, the API up to the end of its start-up
GateInit ==
    /\ WorkerInit
    /\ \E t \in DbTimeouts, i \in DbIntervals : api = ApiCreated(t, i)

GateNext ==
    \/ MainStart
    \/ Probe
    \/ GateTimeout
    \/ LifespanStart
    \/ DbPoll
    \/ CreateTables

GateSpec == GateInit /\ [][GateNext]_vars

TypeOK ==
    /\ state \in {"Init", "AwaitingReadiness", "Running", "Draining",
                  "Finished"}
    /\ now \in 0..MaxTime
    /\ Len(created_ids) <= MaxTracked
    /\ backoff \in 1..BackoffCap

(* ------------------------------ claims --------------------------------- *)
\* the value an ActionClient operation documents for a failed call
EmptyResult(call) ==
    CASE call = "create" -> NoneVal
      [] call \in {"list", "list_filtered"} -> EmptyList
      [] call = "get" -> NoneVal
      [] call \in {"update", "delete"} -> FALSE

\* C1: whichever operation the iteration issued, when the remote times out,
\* refuses the connection or answers 4xx or 5xx, the call returns without
\* raising, its value is none / the empty list / false, and the worker is
\* back at the head of the Running loop.
C1_FailureIsolated ==
    (IsIteration(last) /\ last.issued /\ IsRemoteFailure(last.resp)) =>
        /\ ~last.res.raised
        /\ last.res.ret = EmptyResult(last.call)
        /\ ~last.unexpected
        /\ state = "Running"

C1_Witness ==
    /\ IsIteration(last) /\ last.issued
    /\ last.call = "create"
    /\ last.resp.kind = "refused"
    /\ last.res.ret = NoneVal
    /\ state = "Running"

IsCreateSuccess(l) ==
    /\ IsIteration(l) /\ l.issued /\ l.call = "create"
    /\ l.resp.kind = "status" /\ l.resp.code \in {200, 201}

\* C2: after an iteration whose create the remote answered with 200/201 and
\* an identifier X, X is in created_ids.
C2_CreatedIsTracked ==
    (IsCreateSuccess(last) /\ last.resp.body = "object"
        /\ last.resp.id # NoneVal)
    => last.resp.id \in Range(created_ids)

\* C3: once a delete of X has succeeded, X is not in created_ids.
C3_NoDeletedTracked ==
    (IsIteration(last) /\ last.issued /\ last.call = "delete"
        /\ last.res.ret)
    => last.target \notin Range(created_ids)

IsFailedCreate(l) ==
    /\ IsIteration(l) /\ l.issued /\ l.call = "create"
    /\ (l.resp.kind # "status" \/ l.resp.code \notin {200, 201})

IsFailedDelete(l) ==
    /\ IsIteration(l) /\ l.issued /\ l.call = "delete"
    /\ (l.resp.kind # "status" \/ l.resp.code \notin {200, 204})

\* C4: an iteration whose create failed (transport fault or a status other
\* than 200/201) or whose delete failed (transport fault or a status other
\* than 200/204) leaves created_ids as it was before the iteration.
C4_FailureLeavesTracked ==
    [][(IsFailedCreate(last') \/ IsFailedDelete(last'))
          => created_ids' = created_ids]_vars

C4_Witness ==
    /\ IsFailedDelete(last)
    /\ last.resp.kind = "status"
    /\ created_ids # <<>>

\* C5: the iteration that is the m-th unexpected fault in a row sleeps
\* min(base * 2^(m-1), cap), base 1 and cap 30 (m below the bound at which
\* the history's streak counter saturates).
C5_BackoffDelay ==
    (IsIteration(last) /\ last.unexpected /\ last.streak < MaxCount) =>
        last.slept = Min(BackoffFloor * 2^(last.streak - 1), BackoffCap)

\* C6: after an iteration without an unexpected fault, whatever it did,
\* backoff is at its floor.
C6_CleanResets ==
    (IsIteration(last) /\ ~last.unexpected) => backoff = BackoffFloor

C8_GateFirst ==
    /\ last.step \in {"iteration", "drain_list", "drain_get"}
           => gate = "true"
    /\ visited \cap {"Running", "Draining"} # {} => gate = "true"
    /\ gate = "false" =>
           /\ state = "Finished"
           /\ visited = {"Init", "AwaitingReadiness", "Finished"}

C8_Witness ==
    /\ gate = "false"
    /\ state = "Finished"
    /\ last.step = "gate_timeout"

\* C9 as stated: neither gate raises to its caller; a probe exception is
\* never more than "not yet ready".
C9_Original ==
    /\ gate # "raised"
    /\ last.step = "probe" /\ last.resp.kind # "status"
           => last.result = "retry"
    /\ api.result # "raise"

\* C9 as amended: wait_for_api never raises, takes every probe exception as
\* not yet ready and returns false only once its deadline has passed;
\* wait_for_db_sync takes a failed probe as not yet ready while the deadline
\* has not passed, re-raises the probe's exception once it has, and never
\* returns false.
C9_Gates ==
    /\ gate # "raised"
    /\ last.step = "probe" /\ last.resp.kind # "status"
           => last.result = "retry"
    /\ last.step = "gate_timeout" => gate = "false"
    /\ gate = "false" => ~(now < gate_end)
    /\ api.result # "false"
    /\ (api.result # "none" /\ ~api.probe_ok)
           => api.result \in {"retry", "raise"}
    /\ api.result = "retry" => api.state = "WaitingForDb"
    /\ api.result = "raise" =>
           /\ ~api.probe_ok
           /\ api.now > api.end
           /\ api.state = "Failed"

C9_Witness ==
    /\ gate = "false"
    /\ visited = {"Init", "AwaitingReadiness", "Finished"}
    /\ api.result = "raise"

\* C10: a run that ends because the readiness wait timed out has a non-zero
\* exit status.
C10_AbortIsFailure ==
    (state = "Finished" /\ gate = "false") => exit_code # 0

IsHealthy(r) == r.kind = "status" /\ r.code = 200
LongestCall == CHOOSE d \in CallDurations : \A e \in CallDurations : e <= d

\* C11 as stated: with a probe that never succeeds each gate returns false
\* once its timeout has elapsed, not earlier, and starts no probe after it.
C11_Original ==
    /\ gate = "false" => now >= gate_end
    /\ last.step = "probe" => last.at < gate_end
    /\ api.result # "raise"
    /\ api.attempt >= 1 => api.started <= api.end

\* C11: with a probe that never succeeds neither gate reports readiness.
\* wait_for_api starts no probe at or after its deadline and returns false at
\* its first loop test at or after the deadline, less than one probe and one
\* interval after it. wait_for_db_sync never returns false: it re-raises the
\* exception of the first probe that has failed after the deadline, and as
\* it reads the clock only after a failed probe it may start a probe after
\* the deadline, at most one interval after it.
C11_Gates ==
    /\ (last.step = "probe" /\ ~IsHealthy(last.resp)) =>
           /\ last.result = "retry"
           /\ gate = "pending"
    /\ last.step = "probe" => last.at < gate_end
    /\ gate = "false" =>
           /\ now >= gate_end
           /\ now < gate_end + LongestCall + API_WAIT_INTERVAL
    /\ (api.attempt >= 1 /\ ~api.probe_ok) =>
           /\ api.result \in {"retry", "raise"}
           /\ api.result = "retry" => api.now - api.interval <= api.end
           /\ api.result = "raise" =>
                  api.now > api.end /\ api.state = "Failed"
    /\ api.attempt >= 1 => api.started <= api.end + api.interval

C11_Witness ==
    /\ gate = "false" /\ last.step = "gate_timeout" /\ now > gate_end
    /\ api.result = "raise"
    /\ api.started > api.end
    /\ api.attempt = api.sleeps + 1

\* C12: a gate whose probe fails on attempts 1..k-1 and succeeds on attempt k
\* reports readiness on that attempt and on no earlier one (wait_for_api
\* returns True; wait_for_db_sync returns to lifespan, which takes the return
\* as readiness), having slept its interval exactly k-1 times, so that at
\* least (k-1) intervals have elapsed when the k-th probe starts.
C12_ReadyOnKth ==
    /\ last.step = "probe" =>
           /\ last.result = "ready" <=> IsHealthy(last.resp)
           /\ last.result = "ready" =>
                  /\ gate = "true"
                  /\ last.sleeps = last.attempt - 1
                  /\ last.at >= (last.attempt - 1) * API_WAIT_INTERVAL
                  /\ now >= last.at
           /\ last.result = "retry" =>
                  /\ gate = "pending"
                  /\ last.sleeps = last.attempt
    /\ api.attempt >= 1 =>
           /\ api.result = "ready" <=> api.probe_ok
           /\ api.result = "ready" =>
                  /\ api.state # "WaitingForDb"
                  /\ api.sleeps = api.attempt - 1
                  /\ api.started >= (api.attempt - 1) * api.interval
                  /\ api.now >= api.started
           /\ api.result = "retry" =>
                  /\ api.state = "WaitingForDb"
                  /\ api.sleeps = api.attempt

C12_Witness ==
    /\ last.step = "probe" /\ last.result = "ready"
    /\ last.attempt = 2 /\ last.sleeps = 1 /\ gate = "true"
    /\ api.result = "ready" /\ api.attempt = 3 /\ api.sleeps = 2
    /\ api.started = 2 * api.interval

\* C13: in a Running iteration that starts with no tracked identifier, a
\* selected get issues one list call with skip=0, limit=10 and no get, and a
\* selected update or delete issues no remote call and leaves the tracked
\* identifiers empty.
C13_EmptySetDegrades ==
    [][(state = "Running" /\ created_ids = <<>> /\ IsIteration(last')) =>
           /\ last'.op = "get" =>
                  /\ last'.call = "list_filtered"
                  /\ last'.issued
                  /\ last'.target = NoneVal
                  /\ last'.resp \in ListResponses
                  /\ last'.res = get_items(last'.resp)
           /\ last'.op \in {"update", "delete"} =>
                  /\ last'.call = "none"
                  /\ ~last'.issued
                  /\ last'.resp = NoResponse
                  /\ ~last'.unexpected
           /\ last'.op \in {"get", "update", "delete"} =>
                  created_ids' = <<>>]_vars

C13_Witness ==
    /\ IsIteration(last)
    /\ last.op = "get" /\ last.call = "list_filtered" /\ last.issued
    /\ last.resp.kind = "status" /\ last.resp.code = 200
    /\ created_ids = <<>>

\* C14: whatever the remote answers to the list call and to the sampled get
\* calls of the diagnostics, no exception leaves main: the listing is never
\* the end of the run and a run that got to Draining ends with status 0.
C14_DrainNeverAborts ==
    /\ last.step = "drain_list" =>
           /\ ~last.res.raised
           /\ ~last.crashed
           /\ state = "Draining"
    /\ last.step = "drain_get" => ~last.res.raised /\ state = "Draining"
    /\ ("Draining" \in visited /\ state = "Finished") =>
           exit_code = ExitStatus("done")

\* the records of a listing that carry an integer identifier
IntIdRecords(items) == {i \in 1..Len(items) : items[i] \in Ids}

\* C15: Draining issues exactly one list call and then exactly min(5, n) get
\* calls, n the number of integer identifiers in the listing; each get asks
\* for an identifier of the listing, no entry is asked for twice, and an
\* empty listing is followed by no get.
C15_DrainSample ==
    /\ drain.lists <= 1
    /\ drain.pc \in {"gets", "done", "crashed"} <=> drain.lists = 1
    /\ last.step = "drain_list" =>
           LET n == Cardinality(IntIdRecords(last.res.ret.items)) IN
           /\ drain.gets = 0
           /\ Len(drain.valid_ids) = n
           /\ Cardinality(drain.pending) = Min(SampleMax, n)
    /\ drain.pc \in {"gets", "done"} =>
           /\ drain.pending \subseteq 1..Len(drain.valid_ids)
           /\ drain.gets + Cardinality(drain.pending)
                  = Min(SampleMax, Len(drain.valid_ids))
    /\ drain.pc = "done" => drain.pending = {}
    /\ last.step = "drain_get" =>
           /\ last.target \in Range(drain.valid_ids)
           /\ drain.lists = 1

\* C16: while every request has been answered with success at once and
\* nothing was raised, the iterations follow one another at the pacing
\* interval with the backoff at its floor and never slept; a run of duration
\* D leaves the loop after D/I iterations, give or take one.
C16_IdealRun ==
    ideal # NoneVal =>
        /\ backoff = BackoffFloor
        /\ IsIteration(last) =>
               ~last.unexpected /\ last.slept = INTERVAL_S
        /\ (CYCLE_S > 0 /\ gate = "true") =>
               /\ now = ideal * INTERVAL_S
               /\ ideal * INTERVAL_S <= CYCLE_S + INTERVAL_S
               /\ state \in {"Draining", "Finished"} =>
                      ideal * INTERVAL_S >= CYCLE_S - INTERVAL_S

C16_Witness ==
    /\ ideal = 2 /\ CYCLE_S = 2 /\ INTERVAL_S = 1
    /\ state = "Finished" /\ drain.pc = "done"
    /\ backoff = BackoffFloor
    /\ created_ids # <<>>

C18_FaultKeepsLooping ==
    [][/\ (state = "Running" /\ IsIteration(last') /\ last'.unexpected) =>
              /\ last'.slept = backoff
              /\ now' = Advance(now, backoff)
              /\ backoff' = Min(2 * backoff, BackoffCap)
              /\ state' = "Running"
              /\ pc' = "head"
              /\ exit_code' = NoneVal
              /\ created_ids' = created_ids
       /\ (state = "Running" /\ pc = "head" /\ TimeBefore(now, end)) =>
              /\ state' = "Running"
              /\ pc' = "body"]_vars

C18_Witness ==
    /\ state = "Running" /\ pc = "head"
    /\ IsIteration(last) /\ last.unexpected
    /\ last.op = "update"
    /\ last.slept = 16
    /\ backoff = BackoffCap

\* the step just taken made an ActionClient call that reached the remote
IsClientCall(l) ==
    \/ IsIteration(l) /\ l.issued
    \/ l.step \in {"drain_list", "drain_get"}

\* C19: every ActionClient call, whichever of the five operations it is and
\* however the remote answered, writes exactly one line to the log at the
\* configured level.
C19_OneLogLine == IsClientCall(last) => last.lines = 1

\* C20 as stated: the tables are created and the application serves only
\* after a probe that succeeded before the timeout had elapsed.
C20_Original ==
    (api.tables \/ api.state \in {"DbReady", "Serving"}) =>
        /\ api.result = "ready"
        /\ api.now <= api.end

\* C20: the tables are created and the application serves only after a
\* database probe has succeeded, the tables before the application serves;
\* once a probe has failed after the timeout, start-up has failed for good:
\* no table is created and the application never serves. The probe that
\* succeeds may be one that ends after the timeout, started at most one
\* interval after it.
C20_GateBlocksStartup ==
    /\ [](/\ (api.tables \/ api.state \in {"DbReady", "Serving"}) =>
                 /\ api.result = "ready"
                 /\ api.probe_ok
                 /\ api.started <= api.end + api.interval
          /\ api.state = "Serving" <=> api.tables
          /\ api.result = "raise" =>
                 /\ api.state = "Failed"
                 /\ ~api.tables
                 /\ api.now > api.end)
    /\ [][api.state = "Failed" => api'.state = "Failed" /\ ~api'.tables]_vars

C20_Witness ==
    /\ api.state = "Serving" /\ api.tables
    /\ api.result = "ready"
    /\ api.attempt = 2
    /\ api.now > api.end

IsItemCall(l) ==
    IsIteration(l) /\ l.issued /\ l.call \in {"get", "update", "delete"}

\* C21: every get, update and delete call a Running iteration issues asks
\* for an identifier that is in created_ids when the iteration starts, and a
\* get or update leaves it there.
C21_TargetsTracked ==
    [][(state = "Running" /\ IsItemCall(last')) =>
           /\ created_ids # <<>>
           /\ last'.target \in Range(created_ids)
           /\ last'.target # NoneVal
           /\ last'.call \in {"get", "update"} =>
                  last'.target \in Range(created_ids')]_vars

C21_Witness ==
    /\ IsItemCall(last)
    /\ last.call = "update"
    /\ last.target = 2
    /\ created_ids = <<1, 2>>

IsDeleteSuccess(l) ==
    /\ IsIteration(l) /\ l.issued /\ l.call = "delete"
    /\ l.resp.kind = "status" /\ l.resp.code \in {200, 204}

\* C22: created_ids changes only in a Running iteration, by one identifier
\* appended after a create answered 200/201 or by the first occurrence of the
\* target removed after a delete answered 200/204; list, get and update
\* iterations and every Draining step (the listing and the sampled gets)
\* leave it as it was.
C22_OnlyCreateAndDeleteChange ==
    [][/\ created_ids' # created_ids =>
              /\ state = "Running"
              /\ \/ /\ IsCreateSuccess(last')
                    /\ \E id \in Ids : created_ids' = Append(created_ids, id)
                 \/ /\ IsDeleteSuccess(last')
                    /\ created_ids' = ListRemove(created_ids, last'.target)
       /\ (IsIteration(last') /\ last'.op \in {"list", "get", "update"}) =>
              created_ids' = created_ids
       /\ state = "Draining" => created_ids' = created_ids]_vars

C22_Witness ==
    /\ state = "Draining"
    /\ last.step = "drain_get"
    /\ created_ids = <<2, 1>>

C22_IterationWitness ==
    /\ IsIteration(last)
    /\ last.call = "get"
    /\ last.res.ret = NoneVal
    /\ created_ids # <<>>

\* C23: in every reachable state the backoff is at least 1 and at most 30,
\* whatever sequence of clean iterations and unexpected faults led there.
C23_BackoffInRange ==
    /\ backoff >= BackoffFloor
    /\ backoff <= BackoffCap

C23_Witness ==
    /\ IsIteration(last)
    /\ last.unexpected
    /\ last.slept = BackoffCap
    /\ backoff = BackoffCap

\* C24: the run deadline is set when main starts, before the readiness wait,
\* and never moved, so the wait counts against the run duration: when the
\* gate returns true with CYCLE_S (> 0) seconds or more gone since the start,
\* the next step of the worker is the exit of the loop to Draining, with no
\* iteration in between.
C24_WaitCountsAgainstRun ==
    [][/\ state = "Init" => end' = RunEnd(now, CYCLE_S)
       /\ state # "Init" => end' = end
       /\ (/\ state = "Running" /\ last.step = "probe"
           /\ CYCLE_S > 0 /\ now >= CYCLE_S) =>
              /\ state' = "Draining"
              /\ last'.step = "loop_exit"
              /\ ~last'.iterated
              /\ created_ids' = <<>>]_vars

C24_Witness ==
    /\ state = "Draining"
    /\ last.step = "loop_exit"
    /\ ~last.iterated
    /\ CYCLE_S > 0
    /\ now >= CYCLE_S
    /\ gate = "true"

\* how often the identifier x is held in the list s
Occurrences(s, x) == Cardinality({j \in 1..Len(s) : s[j] = x})

\* C25: created_ids loses an occurrence of an identifier only in an
\* iteration whose delete of that identifier was answered 200/204; after a
\* get, update or delete that failed, a 404 for an item some other worker
\* deleted included, the target is still in created_ids, as often as before,
\* and stays there for every later draw.
C25_OnlyOwnDeleteRemoves ==
    [][/\ \A i \in Ids :
            Occurrences(created_ids', i) < Occurrences(created_ids, i) =>
                /\ IsDeleteSuccess(last')
                /\ last'.target = i
                /\ Occurrences(created_ids', i)
                       = Occurrences(created_ids, i) - 1
       /\ (IsItemCall(last') /\ ~Succeeds(last'.call, last'.resp)) =>
              /\ last'.target \in Range(created_ids')
              /\ \A i \in Ids :
                    Occurrences(created_ids', i) = Occurrences(created_ids, i)
       /\ state # "Running" => created_ids' = created_ids]_vars

C25_Witness ==
    /\ IsItemCall(last)
    /\ last.call = "delete"
    /\ last.resp.kind = "status"
    /\ last.resp.code = 404
    /\ last.target = 1
    /\ created_ids = <<1, 2>>

====
